---- MODULE Spec2Model ----
(***************************************************************************)
(* A model of app.py: the GDP-per-capita dashboard.                        *)
(*                                                                         *)
(*   - startup: the wide table read from gdp_pcap.csv is transposed,       *)
(*     melted to long format and its cells converted to integers           *)
(*     (replace 'k' by '*1e3', pd.eval, astype(int));                      *)
(*   - the two controls (country dropdown, year range slider) and the      *)
(*     callback update_figure they trigger.                                *)
(*                                                                         *)
(* Text is modelled as sequences of one-character strings, so that the     *)
(* regex replacement and the expression evaluation act on characters.      *)
(* Floating point values are IEEE-754 binary64, computed exactly on        *)
(* arbitrary-size naturals (limb sequences) and rounded to 53 bits.        *)
(***************************************************************************)
EXTENDS Integers, Sequences, FiniteSets

\* ------------------------------------------------------------------------
\* Bounds of the model

\* Longest cell text enumerated exhaustively by SpecParse.
MaxCellLen == 5

\* Countries of the file beyond the six the dropdown selects by default.
NumExtraCountries == 1

\* Number of different fillings of the file's cells.
NumFills == 1

\* Longest country list of a request sent to the callback directly.
MaxRequestLen == 2

\* ------------------------------------------------------------------------
\* Arbitrary-size naturals: little-endian sequences of 15-bit limbs, no
\* leading zero limb.  (Python ints and the 53-bit significands of binary64
\* exceed the range of TLC's 32-bit integers.)

LimbBits == 15

Base == 2 ^ LimbBits

Min(a, b) == IF a <= b THEN a ELSE b

Limb(b, i) == IF i >= 1 /\ i <= Len(b) THEN b[i] ELSE 0

RECURSIVE Trim(_)
Trim(b) ==
    IF b = <<>> THEN b
    ELSE IF b[Len(b)] = 0 THEN Trim(SubSeq(b, 1, Len(b) - 1))
    ELSE b

RECURSIVE FromNat(_)
FromNat(n) == IF n = 0 THEN <<>> ELSE <<n % Base>> \o FromNat(n \div Base)

RECURSIVE ToNat(_)
ToNat(b) == IF b = <<>> THEN 0 ELSE b[1] + Base * ToNat(Tail(b))

\* Number of bits of a natural below Base.
RECURSIVE SmallBitLen(_)
SmallBitLen(n) == IF n = 0 THEN 0 ELSE 1 + SmallBitLen(n \div 2)

BitLen(b) ==
    IF b = <<>> THEN 0 ELSE LimbBits * (Len(b) - 1) + SmallBitLen(b[Len(b)])

RECURSIVE AddFrom(_, _, _, _)
AddFrom(a, b, i, c) ==
    IF i > Len(a) /\ i > Len(b)
    THEN (IF c = 1 THEN <<1>> ELSE <<>>)
    ELSE LET s == Limb(a, i) + Limb(b, i) + c
         IN  <<s % Base>> \o AddFrom(a, b, i + 1, s \div Base)

BAdd(a, b) == Trim(AddFrom(a, b, 1, 0))

\* a * k for a natural k below Base.
RECURSIVE MulSmallFrom(_, _, _, _)
MulSmallFrom(a, k, i, c) ==
    IF i > Len(a) THEN (IF c = 0 THEN <<>> ELSE <<c>>)
    ELSE LET p == a[i] * k + c
         IN  <<p % Base>> \o MulSmallFrom(a, k, i + 1, p \div Base)

BMulSmall(a, k) == Trim(MulSmallFrom(a, k, 1, 0))

RECURSIVE BMul(_, _)
BMul(a, b) ==
    IF a = <<>> \/ b = <<>> THEN <<>>
    ELSE LET rest == BMul(a, Tail(b))
         IN  BAdd(BMulSmall(a, b[1]), IF rest = <<>> THEN rest ELSE <<0>> \o rest)

\* Quotient and remainder of a by a natural d below Base, most significant
\* limb first.
RECURSIVE DivFrom(_, _, _, _)
DivFrom(a, d, i, r) ==
    IF i = 0 THEN [q |-> <<>>, r |-> r]
    ELSE LET r2   == Base * r + a[i]
             rest == DivFrom(a, d, i - 1, r2 % d)
         IN  [q |-> Append(rest.q, r2 \div d), r |-> rest.r]

BDivSmall(a, d) ==
    LET x == DivFrom(a, d, Len(a), 0) IN [q |-> Trim(x.q), r |-> x.r]

\* floor(a / 10^k), and whether the division left a remainder.
RECURSIVE BDivPow10(_, _)
BDivPow10(a, k) ==
    IF k = 0 THEN [q |-> a, inexact |-> FALSE]
    ELSE LET x == BDivPow10(a, k - 1)
             y == BDivSmall(x.q, 10)
         IN  [q |-> y.q, inexact |-> x.inexact \/ y.r # 0]

\* 5^k, six factors at a time (5^6 is below Base).
RECURSIVE BPow5(_)
BPow5(k) ==
    IF k = 0 THEN <<1>>
    ELSE IF k >= 6 THEN BMulSmall(BPow5(k - 6), 5 * 5 * 5 * 5 * 5 * 5)
    ELSE BMulSmall(BPow5(k - 1), 5)

BShl(a, k) ==
    IF a = <<>> \/ k <= 0 THEN a
    ELSE [i \in 1..(k \div LimbBits) |-> 0] \o BMulSmall(a, 2 ^ (k % LimbBits))

BShr(a, k) ==
    IF k <= 0 THEN a
    ELSE IF k \div LimbBits >= Len(a) THEN <<>>
    ELSE BDivSmall(SubSeq(a, k \div LimbBits + 1, Len(a)), 2 ^ (k % LimbBits)).q

\* Bit t of a, the lowest being bit 1.
TestBit(a, t) ==
    (Limb(a, (t - 1) \div LimbBits + 1) \div (2 ^ ((t - 1) % LimbBits))) % 2

\* TRUE iff one of the k lowest bits of a is set.
LowBitsSet(a, k) ==
    \/ \E i \in 1..Min(k \div LimbBits, Len(a)) : a[i] # 0
    \/ Limb(a, k \div LimbBits + 1) % (2 ^ (k % LimbBits)) # 0

\* ------------------------------------------------------------------------
\* Values of the expression evaluator: Python ints, and binary64 floats
\* m * 2^e with m a natural of at most 53 bits, or inf/nan.
\* Only non-negative values occur: the cell alphabet has no minus sign.

MkInt(n) == [t |-> "int", n |-> n, m |-> <<>>, e |-> 0]

FInf == [t |-> "inf", n |-> 0, m |-> <<>>, e |-> 0]

FNan == [t |-> "nan", n |-> 0, m |-> <<>>, e |-> 0]

\* The float m * 2^e, m of at most 53 bits.
MkFloat(m, e) == [t |-> "float", n |-> 0, m |-> m, e |-> IF m = <<>> THEN 0 ELSE e]

\* Round to nearest, ties to even: the binary64 nearest to (q + d) * 2^e,
\* where 0 <= d < 1 and d > 0 iff sticky.  A sticky q has more than 53 bits.
\* A result of 2^1024 or more is inf.
Round53(q, sticky, e) ==
    IF BitLen(q) <= 53 THEN MkFloat(q, e)
    ELSE LET t  == BitLen(q) - 53
             m0 == BShr(q, t)
             st == sticky \/ LowBitsSet(q, t - 1)
             up == TestBit(q, t) = 1 /\ (st \/ TestBit(m0, 1) = 1)
             m1 == IF up THEN BAdd(m0, <<1>>) ELSE m0
         IN  IF BitLen(m1) + e + t > 1024 THEN FInf ELSE MkFloat(m1, e + t)

\* float(n) of a Python int.
IntToFloat(n) == Round53(FromNat(n), FALSE, 0)

AsFloat(v) == IF v.t = "int" THEN IntToFloat(v.n) ELSE v

IsZero(v) == v.t = "float" /\ v.m = <<>>

FMul(a, b) ==
    IF a.t = "nan" \/ b.t = "nan" THEN FNan
    ELSE IF a.t = "inf" \/ b.t = "inf"
         THEN (IF IsZero(a) \/ IsZero(b) THEN FNan ELSE FInf)
    ELSE Round53(BMul(a.m, b.m), FALSE, a.e + b.e)

FAdd(a, b) ==
    IF a.t = "nan" \/ b.t = "nan" THEN FNan
    ELSE IF a.t = "inf" \/ b.t = "inf" THEN FInf
    ELSE LET lo == Min(a.e, b.e)
         IN  Round53(BAdd(BShl(a.m, a.e - lo), BShl(b.m, b.e - lo)), FALSE, lo)

\* Python's  v * w  and  v + w : int with int stays int, otherwise float.
Mul(v, w) ==
    IF v.t = "int" /\ w.t = "int" THEN MkInt(v.n * w.n)
    ELSE FMul(AsFloat(v), AsFloat(w))

Add(v, w) ==
    IF v.t = "int" /\ w.t = "int" THEN MkInt(v.n + w.n)
    ELSE FAdd(AsFloat(v), AsFloat(w))

\* The binary64 nearest to the decimal n * 10^x (a float literal).
DecimalToFloat(n, x) ==
    IF n = 0 THEN MkFloat(<<>>, 0)
    ELSE IF x >= 309 THEN FInf
    ELSE IF x >= 0 THEN Round53(BMul(FromNat(n), BPow5(x)), FALSE, x)
    ELSE LET s == 4 * (-x) + 56
             d == BDivPow10(BShl(FromNat(n), s), -x)
         IN  Round53(d.q, d.inexact, -s)

\* ------------------------------------------------------------------------
\* The expression grammar pd.eval accepts, over the characters a cell can
\* hold here: number literals, binary + and *, unary +.  A name is parsed
\* but undefined, so it raises like a syntax error does.

Digits == {"0", "1", "2", "3", "4", "5", "6", "7", "8", "9"}

DigitChars == <<"0", "1", "2", "3", "4", "5", "6", "7", "8", "9">>

DigitVal(c) == (CHOOSE i \in 1..10 : DigitChars[i] = c) - 1

RECURSIVE ScanDigits(_, _)
ScanDigits(s, i) ==
    IF i <= Len(s) /\ s[i] \in Digits THEN ScanDigits(s, i + 1) ELSE i

\* The natural written by the digits among s[i..j-1] (a "." is skipped).
RECURSIVE DigitsToNat(_, _, _, _)
DigitsToNat(s, i, j, acc) ==
    IF i >= j THEN acc
    ELSE IF s[i] \in Digits THEN DigitsToNat(s, i + 1, j, 10 * acc + DigitVal(s[i]))
    ELSE DigitsToNat(s, i + 1, j, acc)

Fail == [ok |-> FALSE, v |-> MkInt(0), i |-> 0]

\* A number literal starting at s[i]: digits, digits "." [digits],
\* "." digits, each with an optional exponent e[+-]digits.
Number(s, i) ==
    LET d1     == ScanDigits(s, i)
        hasDot == d1 <= Len(s) /\ s[d1] = "."
        d2     == IF hasDot THEN ScanDigits(s, d1 + 1) ELSE d1
        empty  == IF hasDot THEN d1 = i /\ d2 = d1 + 1 ELSE d1 = i
        hasE   == d2 <= Len(s) /\ s[d2] \in {"e", "E"}
        signed == hasE /\ d2 + 1 <= Len(s) /\ s[d2 + 1] \in {"+", "-"}
        x0     == d2 + 1 + (IF signed THEN 1 ELSE 0)
        d3     == IF hasE THEN ScanDigits(s, x0) ELSE d2
        xabs   == DigitsToNat(s, x0, d3, 0)
        x      == IF signed /\ s[d2 + 1] = "-" THEN -xabs ELSE xabs
        frac   == IF hasDot THEN d2 - d1 - 1 ELSE 0
        n      == DigitsToNat(s, i, d2, 0)
    IN  IF empty \/ (hasE /\ d3 = x0) THEN Fail
        ELSE IF hasDot \/ hasE
             THEN [ok |-> TRUE, v |-> DecimalToFloat(n, x - frac), i |-> d3]
        ELSE [ok |-> TRUE, v |-> MkInt(n), i |-> d3]

RECURSIVE Factor(_, _)
Factor(s, i) ==
    IF i > Len(s) THEN Fail
    ELSE IF s[i] = "+" THEN Factor(s, i + 1)
    ELSE Number(s, i)

\* factor { "*" factor }: acc is the product so far, f the next factor.
RECURSIVE TermRest(_, _, _), TermStep(_, _, _)
TermStep(s, acc, f) ==
    IF f.ok THEN TermRest(s, Mul(acc, f.v), f.i) ELSE Fail

TermRest(s, acc, i) ==
    IF i <= Len(s) /\ s[i] = "*"
    THEN TermStep(s, acc, Factor(s, i + 1))
    ELSE [ok |-> TRUE, v |-> acc, i |-> i]

TermStart(s, f) == IF f.ok THEN TermRest(s, f.v, f.i) ELSE Fail

Term(s, i) == TermStart(s, Factor(s, i))

\* term { "+" term }: acc is the sum so far, f the next term.
RECURSIVE ExprRest(_, _, _), ExprStep(_, _, _)
ExprStep(s, acc, f) ==
    IF f.ok THEN ExprRest(s, Add(acc, f.v), f.i) ELSE Fail

ExprRest(s, acc, i) ==
    IF i <= Len(s) /\ s[i] = "+"
    THEN ExprStep(s, acc, Term(s, i + 1))
    ELSE [ok |-> TRUE, v |-> acc, i |-> i]

ExprStart(s, f) == IF f.ok THEN ExprRest(s, f.v, f.i) ELSE Fail

Expr(s, i) == ExprStart(s, Term(s, i))

\* The parse r is the value of the whole text s.
WholeText(s, r) == IF r.ok /\ r.i = Len(s) + 1 THEN r ELSE Fail

\* pd.eval(s): the value of the whole text, or an exception (ok = FALSE)
\* on a syntax error, an undefined name or an empty expression.
PdEval(s) == WholeText(s, Expr(s, 1))

\* .replace({'k': '*1e3'}, regex=True): every "k" of the text.
RECURSIVE ReplaceK(_)
ReplaceK(s) ==
    IF s = <<>> THEN <<>>
    ELSE (IF Head(s) = "k" THEN <<"*", "1", "e", "3">> ELSE <<Head(s)>>)
         \o ReplaceK(Tail(s))

\* The outcome of converting one cell: an integer (kind "int", or "bigint"
\* with the value in limbs when it exceeds 31 bits), an exception ("raise"),
\* or an out-of-range cast ("cast_ub").
Outcome(kind, val, big) == [kind |-> kind, val |-> val, big |-> big]

Raise == Outcome("raise", 0, <<>>)

\* The int64 a truncated float b is cast to.
CastNat(b) ==
    IF BitLen(b) >= 64 THEN Outcome("cast_ub", 0, <<>>)
    ELSE IF BitLen(b) >= 32 THEN Outcome("bigint", 0, b)
    ELSE Outcome("int", ToNat(b), <<>>)

\* .astype(int) of one evaluated cell: an int is kept, a float is truncated
\* toward zero, nan and inf raise, and a float of 2^63 or more is an
\* out-of-range C cast whose result the platform decides.
AsType(v) ==
    IF v.t = "int" THEN Outcome("int", v.n, <<>>)
    ELSE IF v.t \in {"inf", "nan"} THEN Raise
    ELSE CastNat(IF v.e >= 0 THEN BShl(v.m, v.e) ELSE BShr(v.m, -v.e))

\* The conversion of one cell of the gdp column.  A missing cell (an empty
\* CSV field, NaN in the frame) is the empty text: the name nan it is
\* printed as is undefined or not finite, and either raises.
Cast(r) == IF r.ok THEN AsType(r.v) ELSE Raise

GdpOf(cell) == IF cell = <<>> THEN Raise ELSE Cast(PdEval(ReplaceK(cell)))

\* ------------------------------------------------------------------------
\* Frames and lists

\* The label of the first column of the file.
CountryLabel == <<"c", "o", "u", "n", "t", "r", "y">>

\* .astype(int) of a year label: the decimal number the text writes, or an
\* exception when the text is not all digits.
YearOf(text) ==
    IF text # <<>> /\ ScanDigits(text, 1) = Len(text) + 1
    THEN Outcome("int", DigitsToNat(text, 1, Len(text) + 1, 0), <<>>)
    ELSE Raise

\* Series.unique(): the distinct values in order of first appearance.
RECURSIVE Unique(_)
Unique(s) ==
    IF s = <<>> THEN <<>>
    ELSE LET init == Unique(SubSeq(s, 1, Len(s) - 1))
             x    == s[Len(s)]
         IN  IF \E i \in 1..Len(init) : init[i] = x THEN init ELSE Append(init, x)

Range(s) == {s[i] : i \in 1..Len(s)}

\* df.transpose(): the column labels become the index, and row i of the
\* result holds column i of every row of the file.
Transpose(d) ==
    [index |-> d.columns,
     data  |-> [i \in 1..Len(d.columns) |->
                   [j \in 1..Len(d.rows) |-> d.rows[j][i]]]]

\* df_tp.columns = df_tp.iloc[0]; drop('country'); reset_index();
\* rename index -> year: the columns are labelled by the country names, the
\* row labelled 'country' is removed and the remaining labels are the year
\* column.
YearFrame(t) ==
    LET keep == SelectSeq([i \in 1..Len(t.index) |-> i],
                          LAMBDA i : t.index[i] # CountryLabel)
    IN  [columns |-> t.data[1],
         year    |-> [k \in 1..Len(keep) |-> t.index[keep[k]]],
         data    |-> [k \in 1..Len(keep) |-> t.data[keep[k]]]]

\* The column of frame t labelled c.
\* A lookup that counts the columns from the wrong end.
ColumnMirrored(t, c) ==
    Len(t.columns) + 1 - (CHOOSE j \in 1..Len(t.columns) : t.columns[j] = c)

ColumnOf(t, c) == CHOOSE j \in 1..Len(t.columns) : t.columns[j] = c

\* df_tp.melt(id_vars='year', value_vars=..., var_name='country',
\* value_name='gdp'): for each value column in turn, one record per row.
Melt(t, value_vars) ==
    LET rows == Len(t.year)
    IN  [k \in 1..(Len(value_vars) * rows) |->
            LET c == value_vars[(k - 1) \div rows + 1]
                i == ((k - 1) % rows) + 1
            IN  [year |-> t.year[i], country |-> c, gdp |-> t.data[i][ColumnOf(t, c)]]]

\* The values an out-of-range float-to-int64 cast can produce.
CastOutcomes == {"INT64_MIN", "INT64_MAX"}

\* Lines 16-35 on the file d: the long table before the integer casts are
\* stored, each record with the outcome of its two conversions.
Convert(long) ==
    [k \in 1..Len(long) |->
        [year    |-> YearOf(long[k].year),
         country |-> long[k].country,
         gdp     |-> GdpOf(long[k].gdp)]]

\* all_countries = df['country'].unique().tolist()
AllCountries(d) == Unique([j \in 1..Len(d.rows) |-> d.rows[j][1]])

Reshape(d) ==
    [all_countries |-> AllCountries(d),
     records |-> Convert(Melt(YearFrame(Transpose(d)), AllCountries(d)))]

\* The stored value of a converted cell that did not raise.
Stored(o, ub) ==
    IF o.kind = "int" THEN o.val
    ELSE IF o.kind = "bigint" THEN [limbs |-> o.big]
    ELSE [cast |-> ub]

\* unique_years % 25 == 0
MarkEvery == 25

\* unique_years[unique_years % 25 == 0]
MarkYears(unique_years) == SelectSeq(unique_years, LAMBDA y : y % MarkEvery = 0)

SeqMin(s) == CHOOSE x \in Range(s) : \A y \in Range(s) : x <= y

SeqMax(s) == CHOOSE x \in Range(s) : \A y \in Range(s) : x >= y

\* A removal that ignores an absent item, as set.discard does.
ListDiscard(l, x) ==
    [raised |-> FALSE, items |-> SelectSeq(l, LAMBDA y : y # x)]

\* list.remove(x): the list without the first x, or ValueError.
ListRemove(l, x) ==
    IF \E i \in 1..Len(l) : l[i] = x
    THEN LET i == CHOOSE i \in 1..Len(l) : l[i] = x /\ \A j \in 1..(i - 1) : l[j] # x
         IN  [raised |-> FALSE,
              items  |-> SubSeq(l, 1, i - 1) \o SubSeq(l, i + 1, Len(l))]
    ELSE [raised |-> TRUE, items |-> l]

\* A plain assignment: a second name for the same list object.
ListAlias(l) == [shared |-> TRUE, items |-> l]

\* list.copy(): a new list object with the same items; writes to it do not
\* reach the original.
ListCopy(l) == [shared |-> FALSE, items |-> l]

\* A loop that stops after its first item.
RemoveFirst(l, countries, i) ==
    IF i > Len(countries) THEN [raised |-> FALSE, items |-> l]
    ELSE [raised |-> FALSE, items |-> SelectSeq(l, LAMBDA y : y # countries[i])]

\* for country in countries: countries_filter.remove(country)
RECURSIVE RemoveEach(_, _, _)
RemoveEach(l, countries, i) ==
    IF i > Len(countries) THEN [raised |-> FALSE, items |-> l]
    ELSE LET r == ListRemove(l, countries[i])
         IN  IF r.raised THEN r ELSE RemoveEach(r.items, countries, i + 1)

\* A year filter with strict comparisons.
FilterYearsStrict(table, year_range) ==
    SelectSeq(table, LAMBDA r : r.year > year_range[1] /\ r.year < year_range[2])

\* df_pivot[df_pivot['year'] >= year_range[0]], then <= year_range[1]
FilterYears(table, year_range) ==
    LET from == SelectSeq(table, LAMBDA r : r.year >= year_range[1])
    IN  SelectSeq(from, LAMBDA r : r.year <= year_range[2])

\* for country in countries_filter:
\*     filtered_df = filtered_df[filtered_df['country'] != country]
RECURSIVE DropCountries(_, _, _)
DropCountries(table, countries_filter, i) ==
    IF i > Len(countries_filter) THEN table
    ELSE DropCountries(SelectSeq(table, LAMBDA r : r.country # countries_filter[i]),
                       countries_filter, i + 1)

\* update_figure(year_range, countries) on the process-wide table and
\* country list: the records handed to px.line, or the exception, and the
\* country list as the call leaves it.
UpdateFigure(table, all, year_range, countries) ==
    LET filtered         == FilterYears(table, year_range)
        countries_filter == ListCopy(all)
        removed          == RemoveEach(countries_filter.items, countries, 1)
    IN  [raised |-> removed.raised,
         data   |-> IF removed.raised THEN <<>>
                    ELSE DropCountries(filtered, removed.items, 1),
         all_countries |-> IF countries_filter.shared THEN removed.items ELSE all]

\* ------------------------------------------------------------------------
\* Program constants

\* step = 5 of the RangeSlider.
SliderStep == 5

\* value=[...] of the Dropdown: the countries selected by default.
DefaultCountries == <<"USA", "France", "China", "Egypt", "Vietnam", "Brazil">>

\* ------------------------------------------------------------------------
\* The files the model reads as gdp_pcap.csv

ExtraCountries == <<"Japan", "Kenya", "Peru">>

FileCountries ==
    DefaultCountries \o SubSeq(ExtraCountries, 1, Min(NumExtraCountries, Len(ExtraCountries)))

Reverse(s) == [i \in 1..Len(s) |-> s[Len(s) + 1 - i]]

RowOrders == {FileCountries, Reverse(FileCountries)}

\* The year columns: with a mark year inside, with the mark year missing
\* from the columns, and without any multiple of 25 in range.
YearLists == {<<1820, 1825, 1830>>, <<1820, 1830>>, <<1823, 1824>>}

RECURSIVE NatText(_)
NatText(n) ==
    IF n < 10 THEN <<DigitChars[n + 1]>>
    ELSE Append(NatText(n \div 10), DigitChars[(n % 10) + 1])

\* Well-formed cells: plain integers and numbers with a "k" suffix.
GoodCells ==
    << <<"5", "k">>, <<"1", "2", ".", "5", "k">>, <<"3", "0", "0">>,
       <<"5", ".", "2", "k">>, <<"3", "2", ".", "3", "k">>, <<"7", "1", "9">> >>

FileCell(j, i, fill) == GoodCells[((2 * j + i + fill) % Len(GoodCells)) + 1]

\* One cell of the file may be defective: text that is no number, or missing.
Defects == {"none", "text", "missing"}

DefectCell(defect, good) ==
    IF defect = "text" THEN <<"a", "b", "c">>
    ELSE IF defect = "missing" THEN <<>>
    ELSE good

File(names, years, fill, defect) ==
    [columns |-> <<CountryLabel>> \o [i \in 1..Len(years) |-> NatText(years[i])],
     rows    |-> [j \in 1..Len(names) |->
                    <<names[j]>> \o
                    [i \in 1..Len(years) |->
                        IF j = 2 /\ i = 2 THEN DefectCell(defect, FileCell(j, i, fill))
                        ELSE FileCell(j, i, fill)]]]

Files ==
    {File(names, years, fill, defect) :
        names \in RowOrders, years \in YearLists,
        fill \in 1..NumFills, defect \in Defects}

\* The characters of the cell texts SpecParse enumerates.
CellChars == {"2", "3", ".", "k", "+", "a"}

RECURSIVE TextsUpTo(_)
TextsUpTo(n) ==
    IF n = 0 THEN {<<>>}
    ELSE LET shorter == TextsUpTo(n - 1)
         IN  shorter \cup {Append(t, c) : t \in {x \in shorter : Len(x) = n - 1},
                                          c \in CellChars}

CellTexts == TextsUpTo(MaxCellLen) \cup Range(GoodCells)

\* Files of one country and one year, holding one cell.
OneCellFiles ==
    {[columns |-> <<CountryLabel, <<"1", "8", "2", "5">>>>,
      rows    |-> << <<"USA", c>> >>] : c \in CellTexts}

\* ------------------------------------------------------------------------
\* State

VARIABLES
    pc,             \* "load", "serving", or "aborted" (startup raised)
    df,             \* the file as read by pd.read_csv
    all_countries,  \* the process-wide list of countries
    df_pivot,       \* the process-wide long table
    mark_years,     \* the years marked on the slider
    dropdown,       \* the country dropdown: its options and value
    slider,         \* the year slider: min, max, step, marks, value
    figure,         \* the figure shown by the graph
    request,        \* the last request sent to the callback directly
    response        \* the callback's answer to it

vars ==
    <<pc, df, all_countries, df_pivot, mark_years, dropdown, slider, figure,
      request, response>>

NoFigure == [drawn |-> FALSE, data |-> <<>>]

NoRequest == [sent |-> FALSE, year_range |-> <<0, 0>>, countries |-> <<>>]

NoResponse == [status |-> "none", data |-> <<>>]

InitWith(files) ==
    /\ pc = "load"
    /\ df \in files
    /\ all_countries = <<>>
    /\ df_pivot = <<>>
    /\ mark_years = <<>>
    /\ dropdown = [options |-> {}, value |-> <<>>]
    /\ slider = [min |-> 0, max |-> 0, step |-> SliderStep, marks |-> <<>>,
                 value |-> <<0, 0>>]
    /\ figure = NoFigure
    /\ request = NoRequest
    /\ response = NoResponse

Init == InitWith(Files)

InitParse == InitWith(OneCellFiles)

\* options of the Dropdown: one per distinct country of the file (their
\* alphabetical order is presentation only).
DropdownOptions(d) == Range(AllCountries(d))

\* min and max of the RangeSlider.
SliderMin(table) == SeqMin([k \in 1..Len(table) |-> table[k].year])

SliderMax(table) == SeqMax([k \in 1..Len(table) |-> table[k].year])

\* Steps that are not cut off at max.
SliderPositionsUnclamped(sl) ==
    {sl.min + sl.step * n : n \in 0..((sl.max - sl.min) \div sl.step + 1)}
        \cup Range(sl.marks)

\* The positions a handle of the slider can take: the steps from min, and
\* the marks.
SliderPositions(sl) ==
    {y \in sl.min..sl.max : (y - sl.min) % sl.step = 0} \cup Range(sl.marks)

\* The long table as stored: the converted years and values.
StoredTable(records, ub) ==
    [k \in 1..Len(records) |->
        [year    |-> Stored(records[k].year, ub),
         country |-> records[k].country,
         gdp     |-> Stored(records[k].gdp, ub)]]

\* Lines 27-81 once the table is converted: the process-wide state and the
\* two controls with their default values.
Serve(all, table, unique_years) ==
    /\ pc' = "serving"
    /\ all_countries' = all
    /\ df_pivot' = table
    /\ mark_years' = MarkYears(unique_years)
    /\ dropdown' = [options |-> DropdownOptions(df), value |-> DefaultCountries]
    /\ slider' = [min   |-> SliderMin(table),
                  max   |-> SliderMax(table),
                  step  |-> SliderStep,
                  marks |-> MarkYears(unique_years),
                  value |-> <<SliderMin(table), SliderMax(table)>>]

UniqueYears(table) == Unique([k \in 1..Len(table) |-> table[k].year])

ServeTable(all, table) == Serve(all, table, UniqueYears(table))

\* An exception in a conversion ends the process.
Load(r) ==
    IF \E k \in 1..Len(r.records) :
          r.records[k].year.kind = "raise" \/ r.records[k].gdp.kind = "raise"
    THEN /\ pc' = "aborted"
         /\ UNCHANGED <<all_countries, df_pivot, mark_years, dropdown, slider>>
    ELSE \E ub \in CastOutcomes :
            ServeTable(r.all_countries, StoredTable(r.records, ub))

\* Lines 7-81, run once when the module is loaded: read and reshape the
\* file, convert the cells, derive the mark years and build the controls.
Startup ==
    /\ pc = "load"
    /\ Load(Reshape(df))
    /\ UNCHANGED <<df, figure, request, response>>

\* The callback fired by the page with the values of the two controls: the
\* graph shows the returned figure, and keeps its figure when the callback
\* raises.
Render(year_range, countries) ==
    LET r == UpdateFigure(df_pivot, all_countries, year_range, countries)
    IN  /\ figure' = IF r.raised THEN figure ELSE [drawn |-> TRUE, data |-> r.data]
        /\ all_countries' = r.all_countries

\* The page is loaded: the controls hold their defaults and the callback
\* is fired.
PageLoad ==
    /\ pc = "serving"
    /\ dropdown' = [dropdown EXCEPT !.value = DefaultCountries]
    /\ slider' = [slider EXCEPT !.value = <<slider.min, slider.max>>]
    /\ Render(<<slider.min, slider.max>>, DefaultCountries)
    /\ UNCHANGED <<pc, df, df_pivot, mark_years, request, response>>

\* The list of the chosen options.  The dropdown lists them in the order
\* they were picked; the model lists them in the order of the file, and
\* CallbackRequest sends lists in other orders.
ListOf(chosen) == SelectSeq(all_countries, LAMBDA c : c \in chosen)

\* The dropdown (multi=True) takes a new value and fires the callback.
DropdownChange(chosen) ==
    /\ pc = "serving"
    /\ figure.drawn
    /\ dropdown' = [dropdown EXCEPT !.value = ListOf(chosen)]
    /\ Render(slider.value, ListOf(chosen))
    /\ UNCHANGED <<pc, df, df_pivot, mark_years, slider, request, response>>

\* The user adds an option that is not selected.
SelectCountry(c) ==
    /\ c \in dropdown.options \ Range(dropdown.value)
    /\ DropdownChange(Range(dropdown.value) \cup {c})

\* The user removes a selected country.
DeselectCountry(c) ==
    /\ c \in Range(dropdown.value)
    /\ DropdownChange(Range(dropdown.value) \ {c})

\* The user clears the selection.
ClearCountries ==
    /\ dropdown.value # <<>>
    /\ DropdownChange({})

\* The user moves the handles of the slider (allowCross=False).
SliderChange(low, high) ==
    /\ pc = "serving"
    /\ figure.drawn
    /\ low \in SliderPositions(slider)
    /\ high \in SliderPositions(slider)
    /\ low <= high
    /\ slider' = [slider EXCEPT !.value = <<low, high>>]
    /\ Render(<<low, high>>, dropdown.value)
    /\ UNCHANGED <<pc, df, df_pivot, mark_years, dropdown, request, response>>

\* The names and years of the requests sent to the callback directly: a
\* country of the file and one that is in no file, the ends of the year
\* domain and one step beyond each.
UnknownCountry == "Atlantis"

RequestNames == {DefaultCountries[1], UnknownCountry}

RequestLists ==
    UNION {[1..n -> RequestNames] : n \in 0..MaxRequestLen}
        \cup {DefaultCountries, all_countries, Reverse(DefaultCountries)}

RequestYears ==
    {slider.min - SliderStep, slider.min, slider.max, slider.max + SliderStep}

\* update_figure called with arbitrary arguments (a request to the
\* callback endpoint that no control produced): the caller gets the figure
\* or the error; the page is not involved.
CallbackRequest(year_range, countries) ==
    /\ pc = "serving"
    /\ figure.drawn
    /\ LET r == UpdateFigure(df_pivot, all_countries, year_range, countries)
       IN  /\ response' = IF r.raised THEN [status |-> "error", data |-> <<>>]
                          ELSE [status |-> "ok", data |-> r.data]
           /\ all_countries' = r.all_countries
    /\ request' = [sent |-> TRUE, year_range |-> year_range, countries |-> countries]
    /\ UNCHANGED <<pc, df, df_pivot, mark_years, dropdown, slider, figure>>

\* The application driven through its controls.
Next ==
    \/ Startup
    \/ PageLoad
    \/ \E c \in dropdown.options : SelectCountry(c)
    \/ \E c \in dropdown.options : DeselectCountry(c)
    \/ ClearCountries
    \/ \E low \in SliderPositions(slider) : \E high \in SliderPositions(slider) :
          SliderChange(low, high)

Spec == Init /\ [][Next]_vars

\* The callback driven by arbitrary requests.
NextRequests ==
    \/ Startup
    \/ PageLoad
    \/ \E low \in RequestYears : \E high \in RequestYears :
          \E list \in RequestLists : CallbackRequest(<<low, high>>, list)

SpecRequests == Init /\ [][NextRequests]_vars

\* Startup on every one-cell file.
SpecParse == InitParse /\ [][Startup]_vars

\* ------------------------------------------------------------------------
\* What the claims speak of

\* The records of table with low <= year <= high and country in selected.
InclusionFilter(table, low, high, selected) ==
    SelectSeq(table, LAMBDA r : low <= r.year /\ r.year <= high /\ r.country \in selected)

\* The cells, countries and years of the file.
FileCells == Range(GoodCells) \cup {DefectCell(d, <<>>) : d \in Defects}

ParsedValue == [c \in FileCells |-> GdpOf(c)]

CountrySet == {df.rows[j][1] : j \in 1..Len(df.rows)}

FileYear(i) == DigitsToNat(df.columns[i + 1], 1, Len(df.columns[i + 1]) + 1, 0)

NumYears == Len(df.columns) - 1

YearSet == {FileYear(i) : i \in 1..NumYears}

MinYear == CHOOSE y \in YearSet : \A z \in YearSet : y <= z

MaxYear == CHOOSE y \in YearSet : \A z \in YearSet : y >= z

\* The long table the file stands for: country by country in file order,
\* one record per year column.
ExpectedTable ==
    [k \in 1..(Len(df.rows) * NumYears) |->
        LET j == (k - 1) \div NumYears + 1
            i == ((k - 1) % NumYears) + 1
        IN  [year    |-> FileYear(i),
             country |-> df.rows[j][1],
             gdp     |-> ParsedValue[df.rows[j][i + 1]].val]]

\* C1: the records update_figure hands to the chart are exactly the records
\* of the table with low <= year <= high and country among the selected
\* countries: removing the selected from a copy of all_countries and
\* dropping the rest gives the inclusion filter.
C1_FilterIsInclusion ==
    figure.drawn =>
        figure.data = InclusionFilter(df_pivot, slider.value[1], slider.value[2],
                                      Range(dropdown.value))

\* A chart of some but not all countries and some but not all years.
C1_Witness ==
    /\ figure.drawn
    /\ figure.data # <<>>
    /\ \E k \in 1..Len(df_pivot) : df_pivot[k].country \notin Range(dropdown.value)
    /\ \E k \in 1..Len(df_pivot) : df_pivot[k].year > slider.value[2]
    /\ \E k \in 1..Len(df_pivot) : df_pivot[k].year < slider.value[1]

C3_UnknownCountryRejected ==
    (request.sent /\ \E i \in 1..Len(request.countries) :
                        request.countries[i] \notin CountrySet) =>
        /\ response = [status |-> "error", data |-> <<>>]
        /\ dropdown.value = DefaultCountries
        /\ slider.value = <<MinYear, MaxYear>>
        /\ figure = [drawn |-> TRUE,
                     data  |-> InclusionFilter(df_pivot, MinYear, MaxYear,
                                               Range(DefaultCountries))]

\* A rejected request that named a country of the file before the unknown one.
C3_Witness ==
    /\ request.sent
    /\ request.countries = <<DefaultCountries[1], UnknownCountry>>
    /\ response.status = "error"
    /\ figure.data # <<>>

\* C4 (as claimed): a request whose year range is crossed, or has a bound
\* outside [minYear, maxYear], fails and produces no filtered result.
C4_InvalidRangeRejected ==
    (request.sent /\ (\/ request.year_range[1] > request.year_range[2]
                      \/ request.year_range[1] < MinYear
                      \/ request.year_range[2] > MaxYear)) =>
        response.status = "error"

\* C5: the long table has one record per country and year column of the
\* file, |countries| * |years| in all, and the record of (c, y) holds the
\* converted value of the cell of country c in year column y.
C5_ReshapeComplete ==
    pc = "serving" =>
        /\ Len(df_pivot) = Len(df.rows) * NumYears
        /\ \A j \in 1..Len(df.rows) : \A i \in 1..NumYears :
              \E k \in 1..Len(df_pivot) :
                 /\ df_pivot[k] = [year    |-> FileYear(i),
                                   country |-> df.rows[j][1],
                                   gdp     |-> ParsedValue[df.rows[j][i + 1]].val]
                 /\ \A m \in 1..Len(df_pivot) :
                       (df_pivot[m].country = df.rows[j][1]
                          /\ df_pivot[m].year = FileYear(i)) => m = k

\* A table of several countries and years holding a "k" value.
C5_Witness ==
    /\ pc = "serving"
    /\ Len(df.rows) >= 2
    /\ NumYears >= 3
    /\ \E k \in 1..Len(df_pivot) : df_pivot[k].gdp = 12500
    /\ \E k \in 1..Len(df_pivot) : df_pivot[k].gdp = 300

\* The single cell of a one-cell file.
TheCell == df.rows[1][2]

AllDigits(t) == t # <<>> /\ \A i \in 1..Len(t) : t[i] \in Digits

\* digits, or digits "." digits
IsNumber(t) ==
    \/ AllDigits(t)
    \/ \E d \in 2..(Len(t) - 1) :
          /\ t[d] = "."
          /\ AllDigits(SubSeq(t, 1, d - 1))
          /\ AllDigits(SubSeq(t, d + 1, Len(t)))

\* A plain integer, or a number followed by one trailing "k".
WellFormed(t) ==
    \/ AllDigits(t)
    \/ Len(t) >= 2 /\ t[Len(t)] = "k" /\ IsNumber(SubSeq(t, 1, Len(t) - 1))

\* C6 (as claimed): a cell that is not well-formed, or is missing, aborts
\* startup; it is never turned into a record.
C6_MalformedAborts ==
    (pc # "load" /\ Len(df.rows) = 1 /\ ~WellFormed(TheCell)) => pc = "aborted"

RECURSIVE TenTo(_)
TenTo(n) == IF n = 0 THEN 1 ELSE 10 * TenTo(n - 1)

\* The number of digits after the "." of a number text.
FractionDigits(t) ==
    IF \E d \in 1..Len(t) : t[d] = "."
    THEN Len(t) - (CHOOSE d \in 1..Len(t) : t[d] = ".")
    ELSE 0

\* The integer a well-formed cell stands for: n, or number * 1000 truncated.
ExactValue(t) ==
    IF AllDigits(t) THEN DigitsToNat(t, 1, Len(t) + 1, 0)
    ELSE LET number == SubSeq(t, 1, Len(t) - 1)
             digits == DigitsToNat(number, 1, Len(number) + 1, 0)
             frac   == FractionDigits(number)
         IN  IF frac <= 3 THEN digits * TenTo(3 - frac)
             ELSE digits \div TenTo(frac - 3)

\* C7 (as claimed): a well-formed cell is converted to the non-negative
\* integer it stands for: n for a plain integer, the number times 1000
\* truncated for a "k" value.
C7_ConversionValue ==
    (pc # "load" /\ Len(df.rows) = 1 /\ WellFormed(TheCell)) =>
        /\ pc = "serving"
        /\ df_pivot[1].gdp = ExactValue(TheCell)

\* C8: whatever requests update_figure has served, failed ones included,
\* the long table, the country list and the year domain are those of the
\* end of startup, and the answer to a request is the one the startup
\* values give for its arguments.
C8_StartupValuesKept ==
    pc = "serving" =>
        /\ df_pivot = ExpectedTable
        /\ all_countries = [j \in 1..Len(df.rows) |-> df.rows[j][1]]
        /\ slider.min = MinYear
        /\ slider.max = MaxYear
        /\ request.sent =>
              response =
                 IF \A i \in 1..Len(request.countries) :
                       /\ request.countries[i] \in CountrySet
                       /\ \A m \in 1..(i - 1) : request.countries[m] # request.countries[i]
                 THEN [status |-> "ok",
                       data   |-> InclusionFilter(ExpectedTable, request.year_range[1],
                                                  request.year_range[2],
                                                  Range(request.countries))]
                 ELSE [status |-> "error", data |-> <<>>]

\* A request that failed after removing a country from its copy of the list.
C8_Witness ==
    /\ request.sent
    /\ response.status = "error"
    /\ Len(request.countries) = 2
    /\ request.countries[1] \in CountrySet
    /\ all_countries # <<>>

\* The bounds a year range can take.
YearChoices == SliderPositions(slider) \cup {slider.min, slider.max}

\* C9: every record of the chart is a record of the chart of any Selection
\* with more countries and a wider year range.
C9_FilterMonotone ==
    figure.drawn =>
        \A more \in SUBSET (dropdown.options \ Range(dropdown.value)) :
        \A low \in {y \in YearChoices : y <= slider.value[1]} :
        \A high \in {y \in YearChoices : y >= slider.value[2]} :
            Range(figure.data) \subseteq
                Range(UpdateFigure(df_pivot, all_countries, <<low, high>>,
                                   ListOf(Range(dropdown.value) \cup more)).data)

\* A non-empty chart that a wider Selection strictly extends.
C9_Witness ==
    /\ figure.drawn
    /\ figure.data # <<>>
    /\ Len(figure.data) < Len(df_pivot)
    /\ dropdown.options \ Range(dropdown.value) # {}
    /\ slider.value[1] > slider.min

\* C10 (as claimed): the marks of the slider are exactly the years y with
\* minYear <= y <= maxYear and y mod 25 = 0, each once.
C10_MarksEvery25 ==
    pc = "serving" =>
        /\ Range(slider.marks) = {y \in MinYear..MaxYear : y % MarkEvery = 0}
        /\ Cardinality(Range(slider.marks)) = Len(slider.marks)

====
